---- MODULE Spec2Model ----
(***************************************************************************)
(* SecureShare: client-side envelope encryption (src/lib/crypto.ts), the   *)
(* sender flow (pages/UploadPage.tsx), the receiver flow                   *)
(* (pages/DownloadPage.tsx) and the increment-download-count edge function *)
(* in front of the download ledger.                                        *)
(*                                                                         *)
(* Byte strings are sequences over 0..255.  JavaScript strings (download   *)
(* codes, notes, file names, hex text) are sequences of character codes.   *)
(***************************************************************************)
EXTENDS Integers, Sequences, FiniteSets, TLC

\* ------------------------------------------------------------------ bounds

\* Number of DownloadPage instances (recipients, or one recipient's tabs).
NumReceivers == 2
\* Number of distinct file ids crypto.randomUUID() can return.
MaxFiles == 1
\* The clock runs over 0..MaxTime (hours).
MaxTime == 2
\* The largest download limit the sender picks (the form offers 1..10).
MaxLimit == 2

Receivers == 1..NumReceivers
Ids == 1..MaxFiles

\* ------------------------------------------------------- crypto.ts, config

KDF_ITERATIONS == 250000
KDF_HASH == "SHA-256"
KEY_ALG == "AES-GCM"
WRAP_ALG == "AES-GCM"

\* ---------------------------------------------------------- sequence help

RECURSIVE SumSeq(_)
SumSeq(s) == IF s = <<>> THEN 0 ELSE Head(s) + SumSeq(Tail(s))

RECURSIVE Flatten(_)
Flatten(ss) == IF ss = <<>> THEN <<>> ELSE Head(ss) \o Flatten(Tail(ss))

IsPrefix(p, s) == Len(p) <= Len(s) /\ SubSeq(s, 1, Len(p)) = p

\* ------------------------------------------------------------ text codecs

\* A JavaScript string is a sequence of UTF-16 code units (0..65535).
IsHighSurrogate(u) == u >= 55296 /\ u <= 56319
IsLowSurrogate(u) == u >= 56320 /\ u <= 57343
IsContinuation(b) == b >= 128 /\ b < 192

\* UTF-8 of one code point.
Utf8Char(c) ==
  IF c < 128 THEN <<c>>
  ELSE IF c < 2048 THEN <<192 + (c \div 64), 128 + (c % 64)>>
  ELSE IF c < 65536
  THEN <<224 + (c \div 4096), 128 + ((c \div 64) % 64), 128 + (c % 64)>>
  ELSE <<240 + (c \div 262144), 128 + ((c \div 4096) % 64),
         128 + ((c \div 64) % 64), 128 + (c % 64)>>

\* new TextEncoder().encode(str): a surrogate pair is one code point, a
\* surrogate without its partner is encoded as U+FFFD.
RECURSIVE TextEncode(_)
TextEncode(str) ==
  IF str = <<>> THEN <<>>
  ELSE IF /\ IsHighSurrogate(str[1]) /\ Len(str) >= 2 /\ IsLowSurrogate(str[2])
  THEN Utf8Char(65536 + (str[1] - 55296) * 1024 + (str[2] - 56320))
         \o TextEncode(SubSeq(str, 3, Len(str)))
  ELSE IF IsHighSurrogate(str[1]) \/ IsLowSurrogate(str[1])
  THEN Utf8Char(65533) \o TextEncode(Tail(str))
  ELSE Utf8Char(str[1]) \o TextEncode(Tail(str))

\* The UTF-8 decoder: well-formed sequences give their code units; a byte
\* that starts no well-formed sequence gives U+FFFD.
RECURSIVE Utf8Decode(_)
Utf8Decode(bytes) ==
  IF bytes = <<>> THEN <<>>
  ELSE IF bytes[1] < 128 THEN <<bytes[1]>> \o Utf8Decode(Tail(bytes))
  ELSE IF /\ bytes[1] >= 194 /\ bytes[1] < 224 /\ Len(bytes) >= 2
          /\ IsContinuation(bytes[2])
       THEN <<(bytes[1] - 192) * 64 + (bytes[2] - 128)>>
              \o Utf8Decode(SubSeq(bytes, 3, Len(bytes)))
  ELSE IF /\ bytes[1] >= 224 /\ bytes[1] < 240 /\ Len(bytes) >= 3
          /\ IsContinuation(bytes[2]) /\ IsContinuation(bytes[3])
          /\ (bytes[1] = 224 => bytes[2] >= 160)
          /\ (bytes[1] = 237 => bytes[2] < 160)
       THEN <<(bytes[1] - 224) * 4096 + (bytes[2] - 128) * 64 + (bytes[3] - 128)>>
              \o Utf8Decode(SubSeq(bytes, 4, Len(bytes)))
  ELSE IF /\ bytes[1] >= 240 /\ bytes[1] < 245 /\ Len(bytes) >= 4
          /\ IsContinuation(bytes[2]) /\ IsContinuation(bytes[3])
          /\ IsContinuation(bytes[4])
          /\ (bytes[1] = 240 => bytes[2] >= 144)
          /\ (bytes[1] = 244 => bytes[2] < 144)
       THEN LET cp == (bytes[1] - 240) * 262144 + (bytes[2] - 128) * 4096
                        + (bytes[3] - 128) * 64 + (bytes[4] - 128)
            IN  <<55296 + ((cp - 65536) \div 1024), 56320 + ((cp - 65536) % 1024)>>
                  \o Utf8Decode(SubSeq(bytes, 5, Len(bytes)))
  ELSE <<65533>> \o Utf8Decode(Tail(bytes))

\* new TextDecoder().decode(bytes): with the default ignoreBOM = false a
\* leading byte order mark EF BB BF is consumed and not part of the result.
TextDecode(bytes) ==
  IF Len(bytes) >= 3 /\ SubSeq(bytes, 1, 3) = <<239, 187, 191>>
  THEN Utf8Decode(SubSeq(bytes, 4, Len(bytes)))
  ELSE Utf8Decode(bytes)

\* Character code of the hex digit d (0..15): "0".."9", "a".."f".
HexChar(d) == IF d < 10 THEN 48 + d ELSE 87 + d

\* arrayBufferToHex without padStart: b.toString(16) for each byte, joined.
arrayBufferToHexNoPad(bytes) ==
  Flatten([i \in 1..Len(bytes) |->
             IF bytes[i] < 16 THEN <<HexChar(bytes[i])>>
             ELSE <<HexChar(bytes[i] \div 16), HexChar(bytes[i] % 16)>>])

\* b.toString(16).padStart(2, '0') for each byte, joined.
arrayBufferToHex(bytes) ==
  Flatten([i \in 1..Len(bytes) |->
             <<HexChar(bytes[i] \div 16), HexChar(bytes[i] % 16)>>])

\* Value of one character as a base-16 digit, -1 when it is none.
HexVal(c) ==
  IF c >= 48 /\ c <= 57 THEN c - 48
  ELSE IF c >= 97 /\ c <= 102 THEN c - 87
  ELSE IF c >= 65 /\ c <= 70 THEN c - 55
  ELSE -1

\* parseInt(two, 16) stored into a Uint8Array element: parseInt reads the
\* longest hex prefix; NaN is stored as 0.
ParseHexPair(two) ==
  IF HexVal(two[1]) < 0 THEN 0
  ELSE IF Len(two) < 2 \/ HexVal(two[2]) < 0 THEN HexVal(two[1])
  ELSE HexVal(two[1]) * 16 + HexVal(two[2])

\* new ArrayBuffer(hex.length / 2) truncates the length; the store past the
\* end of the view, for the last character of an odd-length input, is dropped.
hexToArrayBuffer(hex) ==
  [j \in 1..(Len(hex) \div 2) |-> ParseHexPair(SubSeq(hex, 2 * j - 1, 2 * j))]

\* -------------------------------------------------- Web Crypto primitives
\* PBKDF2 and AES-GCM are the platform's, not this repository's.  They are
\* modelled as ideal primitives over byte strings: the output determines
\* its inputs (length-prefixed), so distinct inputs never collide, and an
\* AES-GCM ciphertext opens only under the key and IV that sealed it and
\* only if no byte of it was altered.  Secrecy is not expressed in the
\* bytes; it is stated over what the flows send.

HashId(hash) == IF hash = "SHA-256" THEN 2 ELSE IF hash = "SHA-1" THEN 1 ELSE 0

\* crypto.subtle.deriveKey({name: "PBKDF2", salt, iterations, hash}, baseKey, ...)
Pbkdf2(password, salt, iterations, hash) ==
  <<Len(password)>> \o password \o <<Len(salt)>> \o salt
    \o <<iterations % 256, (iterations \div 256) % 256, (iterations \div 65536) % 256>>
    \o <<HashId(hash)>>

GcmTag(body) == (SumSeq(body) + 1) % 256

\* crypto.subtle.encrypt / wrapKey("raw") with {name: "AES-GCM", iv}.
AesGcmSeal(key, iv, data) ==
  LET body == <<Len(key)>> \o key \o <<Len(iv)>> \o iv \o data
  IN  body \o <<GcmTag(body)>>

\* crypto.subtle.decrypt / unwrapKey: the data, or an OperationError.
AesGcmOpen(key, iv, ct) ==
  LET hdr == <<Len(key)>> \o key \o <<Len(iv)>> \o iv
  IN  IF /\ Len(ct) > Len(hdr)
         /\ IsPrefix(hdr, ct)
         /\ ct[Len(ct)] = GcmTag(SubSeq(ct, 1, Len(ct) - 1))
      THEN [ok |-> TRUE, data |-> SubSeq(ct, Len(hdr) + 1, Len(ct) - 1)]
      ELSE [ok |-> FALSE, data |-> <<>>]

\* ------------------------------------------------------- crypto.ts, core

\* deriveKek with the salt parameter left empty.
deriveKekNoSalt(downloadCode, salt) ==
  Pbkdf2(TextEncode(downloadCode), <<>>, KDF_ITERATIONS, KDF_HASH)

\* deriveKek with the base key imported from an empty password.
deriveKekSaltOnly(downloadCode, salt) ==
  Pbkdf2(<<>>, salt, KDF_ITERATIONS, KDF_HASH)

deriveKek(downloadCode, salt) ==
  Pbkdf2(TextEncode(downloadCode), salt, KDF_ITERATIONS, KDF_HASH)

\* iv is the draw crypto.getRandomValues(new Uint8Array(WRAP_IV_BYTES)).
wrapFileKey(fileKey, kek, iv) ==
  [wrappedKey |-> AesGcmSeal(kek, iv, fileKey), iv |-> iv]

unwrapFileKey(wrappedKey, iv, kek) == AesGcmOpen(kek, iv, wrappedKey)

\* The code units String.prototype.trim removes: WhiteSpace and
\* LineTerminator of ECMAScript.
TrimmedChars ==
  {9, 10, 11, 12, 13, 32, 160, 5760, 8232, 8233, 8239, 8287, 12288, 65279}
    \cup (8192..8202)

\* str.trim() === ""
IsBlank(str) == \A i \in 1..Len(str) : str[i] \in TrimmedChars

\* JavaScript falsiness of envelope[field]: missing, null or "".
Falsy(envelope, field) ==
  field \notin DOMAIN envelope \/ envelope[field] = <<>>

\* encryptFile with one IV draw shared by the wrap, the content and the note.
encryptFileOneIv(file, downloadCode, instructions, rnd) ==
  LET fileKey == rnd.fileKey
      salt == rnd.salt
      kek == deriveKek(downloadCode, salt)
      iv == rnd.iv
      wrapped == wrapFileKey(fileKey, kek, iv)
      ciphertext == AesGcmSeal(fileKey, iv, file.content)
      encryptedInstructionsData ==
        IF instructions # <<>> /\ ~IsBlank(instructions)
        THEN [encrypted_instructions |->
                arrayBufferToHex(AesGcmSeal(fileKey, iv, TextEncode(instructions))),
              instructions_iv |-> arrayBufferToHex(iv)]
        ELSE <<>>
      envelope ==
        [filename |-> file.name,
         mime_type |-> file.type,
         size |-> Len(file.content),
         alg |-> KEY_ALG,
         iv |-> arrayBufferToHex(iv),
         salt |-> arrayBufferToHex(salt),
         kdf_params |-> [name |-> "PBKDF2", iterations |-> KDF_ITERATIONS,
                         hash |-> KDF_HASH],
         wrapped_file_key |-> arrayBufferToHex(wrapped.wrappedKey),
         wrap_iv |-> arrayBufferToHex(wrapped.iv)] @@ encryptedInstructionsData
  IN  [ciphertext |-> ciphertext, envelope |-> envelope]

\* Sender flow.  rnd holds the values drawn from the random source, in the
\* order of the draws: fileKey, salt, wrapIv, iv, instructions_iv.
encryptFile(file, downloadCode, instructions, rnd) ==
  LET fileKey == rnd.fileKey
      salt == rnd.salt
      kek == deriveKek(downloadCode, salt)
      wrapped == wrapFileKey(fileKey, kek, rnd.wrapIv)
      iv == rnd.iv
      ciphertext == AesGcmSeal(fileKey, iv, file.content)
      encryptedInstructionsData ==
        IF instructions # <<>> /\ ~IsBlank(instructions)
        THEN [encrypted_instructions |->
                arrayBufferToHex(AesGcmSeal(fileKey, rnd.instructions_iv,
                                            TextEncode(instructions))),
              instructions_iv |-> arrayBufferToHex(rnd.instructions_iv)]
        ELSE <<>>
      envelope ==
        [filename |-> file.name,
         mime_type |-> file.type,
         size |-> Len(file.content),
         alg |-> KEY_ALG,
         iv |-> arrayBufferToHex(iv),
         salt |-> arrayBufferToHex(salt),
         kdf_params |-> [name |-> "PBKDF2", iterations |-> KDF_ITERATIONS,
                         hash |-> KDF_HASH],
         wrapped_file_key |-> arrayBufferToHex(wrapped.wrappedKey),
         wrap_iv |-> arrayBufferToHex(wrapped.iv)] @@ encryptedInstructionsData
  IN  [ciphertext |-> ciphertext, envelope |-> envelope]

MsgUnwrapFailed == "Decryption failed. The download code may be incorrect."
MsgFileDecryptFailed == "File decryption failed. The data may be corrupted."

\* Receiver flow: the file key, or the error thrown.
getFileKey(envelope, downloadCode) ==
  LET salt == hexToArrayBuffer(envelope.salt)
      kek == deriveKek(downloadCode, salt)
      wrappedKey == hexToArrayBuffer(envelope.wrapped_file_key)
      wrapIv == hexToArrayBuffer(envelope.wrap_iv)
      opened == unwrapFileKey(wrappedKey, wrapIv, kek)
  IN  IF opened.ok
      THEN [ok |-> TRUE, key |-> opened.data, error |-> ""]
      ELSE [ok |-> FALSE, key |-> <<>>, error |-> MsgUnwrapFailed]

\* The decrypted Blob, or the error thrown.
decryptFile(ciphertext, envelope, fileKey) ==
  LET iv == hexToArrayBuffer(envelope.iv)
      opened == AesGcmOpen(fileKey, iv, ciphertext)
  IN  IF opened.ok
      THEN [ok |-> TRUE, content |-> opened.data, type |-> envelope.mime_type,
            error |-> ""]
      ELSE [ok |-> FALSE, content |-> <<>>, type |-> "",
            error |-> MsgFileDecryptFailed]

\* string | null is modelled with null as NullText.
NullText == <<-1>>
\* "Could not decrypt instructions."
CouldNotDecryptInstructions == <<67, 111, 117, 108, 100, 32, 110, 111, 116, 32, 100, 101, 99, 114, 121, 112, 116, 32, 105, 110, 115, 116, 114, 117, 99, 116, 105, 111, 110, 115, 46>>

decryptInstructions(envelope, fileKey) ==
  IF Falsy(envelope, "encrypted_instructions") \/ Falsy(envelope, "instructions_iv")
  THEN NullText
  ELSE LET instructions_iv == hexToArrayBuffer(envelope.instructions_iv)
           encrypted_instructions == hexToArrayBuffer(envelope.encrypted_instructions)
           opened == AesGcmOpen(fileKey, instructions_iv, encrypted_instructions)
       IN  IF opened.ok THEN TextDecode(opened.data)
           ELSE CouldNotDecryptInstructions

\* ------------------------------------------------- crypto.ts, code words

\* "ABCDEFGHJKLMNPQRSTUVWXYZ23456789"
BASE32_CHARS == <<65, 66, 67, 68, 69, 70, 71, 72, 74, 75, 76, 77, 78, 80, 81, 82, 83, 84, 85, 86, 87, 88, 89, 90, 50, 51, 52, 53, 54, 55, 56, 57>>

Pow2(n) == 2 ^ n

\* Shl8Or on an accumulator eight bits wide.
Shl8OrNarrow(bits, byte) == [hi |-> 0, lo |-> byte]

\* The 32-bit accumulator `bits` is kept as its two 16-bit halves.
\* (bits << 8) | byte
Shl8Or(bits, byte) ==
  [hi |-> (bits.hi * 256 + (bits.lo \div 256)) % 65536,
   lo |-> ((bits.lo % 256) * 256) + byte]

\* (bits >>> n) & 31, for 0 <= n <= 16
UshrAnd31(bits, n) ==
  (((bits.hi % Pow2(n)) * Pow2(16 - n)) + (bits.lo \div Pow2(n))) % 32

\* (bits << n) & 31, for 0 <= n <= 5
ShlAnd31(bits, n) == (bits.lo * Pow2(n)) % 32

\* The loop of encodeBase32 from byte i on; bitLength counts the pending bits.
RECURSIVE EncodeBase32Loop(_, _, _, _, _)
EncodeBase32Loop(bytes, i, bits, bitLength, result) ==
  IF i > Len(bytes)
  THEN IF bitLength > 0
       THEN result \o <<BASE32_CHARS[ShlAnd31(bits, 5 - bitLength) + 1]>>
       ELSE result
  ELSE LET b2 == Shl8Or(bits, bytes[i])
           l2 == bitLength + 8
           \* while (bitLength >= 5): one or two symbols per byte
           first == BASE32_CHARS[UshrAnd31(b2, l2 - 5) + 1]
           second == BASE32_CHARS[UshrAnd31(b2, l2 - 10) + 1]
       IN  IF l2 >= 10
           THEN EncodeBase32Loop(bytes, i + 1, b2, l2 - 10, result \o <<first, second>>)
           ELSE EncodeBase32Loop(bytes, i + 1, b2, l2 - 5, result \o <<first>>)

encodeBase32(bytes) == EncodeBase32Loop(bytes, 1, [hi |-> 0, lo |-> 0], 0, <<>>)

\* CodeEntropyBytes with Math.floor for Math.ceil.
CodeEntropyBytesFloor(length) == (length * 5) \div 8

\* Math.ceil(length * 5 / 8)
CodeEntropyBytes(length) == (length * 5 + 7) \div 8

\* randomBytes is the draw crypto.getRandomValues(new Uint8Array(ceil(length*5/8))).
generateDownloadCode(length, randomBytes) ==
  LET full == encodeBase32(randomBytes)
  IN  SubSeq(full, 1, IF length < Len(full) THEN length ELSE Len(full))

\* ------------------------------------------------------------------ state

VARIABLES
  files,     \* metadata store, table "files": id -> row, or NoRow
  storage,   \* blob store, bucket "files": path -> bytes, or NoBlob
  now,       \* the clock, in hours
  sender,    \* the UploadPage instance
  rcv,       \* the DownloadPage instances
  ledgerLog, \* history: per id, the number of 200 responses of the ledger
             \* endpoint, and whether it has answered 403
  wire,      \* the requests the last step put on the network
  lab        \* one sender and one recipient run in sequence (SpecCrypto)

vars == <<files, storage, now, sender, rcv, ledgerLog, wire, lab>>
System == <<files, storage, now, sender, rcv, ledgerLog, wire>>

NoRow == [id |-> 0]
NoBlob == <<-1>>
NoFile == [name |-> "", type |-> "", content |-> <<-1>>]
NoPending == [fileId |-> 0]
NoUrl == [fileId |-> 0, fragment |-> <<>>]

\* generateDownloadCode(length = 10)
DEFAULT_CODE_LENGTH == 10

\* ----------------------------------------------------------------- inputs

\* The files the sender may drop.
FilePool == {[name |-> "report.txt", type |-> "text/plain", content |-> <<104, 105, 10>>]}

\* The recipient notes the sender may type: none, "ok".
NotePool == {<<>>, <<111, 107>>}

\* Outcomes of the random source for one sender flow: the bytes behind the
\* download code, the file key, the salt and the three IVs.
RandomTapes ==
  {[codeBytes |-> <<255, 18, 52, 86, 120, 154, 188>>, fileKey |-> <<240>>,
    salt |-> <<0, 171>>, wrapIv |-> <<9>>, iv |-> <<9>>, instructions_iv |-> <<4>>]}

\* A download code the sender did not generate.
WrongCode == generateDownloadCode(DEFAULT_CODE_LENGTH, <<0, 0, 0, 0, 0, 0, 0>>)

\* "Expires In": 1, 6 or 24 hours.  Only the first ends within MaxTime, and
\* an envelope created at MaxTime outlives the clock like the longer ones.
ExpiryChoices == {1}
\* "Download Limit".
LimitChoices == 1..MaxLimit
AccentPool == {"teal"}

\* What a recipient may have in the URL fragment or type into the code field.
TypedCodes ==
  {generateDownloadCode(DEFAULT_CODE_LENGTH, t.codeBytes) : t \in RandomTapes}
    \cup {WrongCode}

\* ----------------------------------------------------- the external stores
\* The table's schema and the increment_download_count function live in the
\* database, outside the source tree; they are taken from the specification.

\* insert(row): columns the payload omits take the table's defaults.
FilesInsertRow(payload) == payload @@ [download_count |-> 0]

\* increment_download_count(file_id_param): one transaction that checks
\* expires_at > now and download_count < max_downloads, and increments.
\* Yields the boolean answer and the table afterwards.
RpcIncrementDownloadCount(table, fileId, clock) ==
  IF /\ fileId \in DOMAIN table
     /\ table[fileId] # NoRow
     /\ table[fileId].expires_at > clock
     /\ table[fileId].download_count < table[fileId].max_downloads
  THEN [data |-> TRUE,
        table |-> [table EXCEPT ![fileId].download_count = @ + 1]]
  ELSE [data |-> FALSE, table |-> table]

\* ------------------------------------- edge function increment-download-count

\* ServeResponse without the branch for data === false.
ServeResponseNoDeny(fileId, rpc) ==
  IF fileId = 0
  THEN [status |-> 400, error |-> "Missing fileId parameter"]
  ELSE IF rpc.error
  THEN [status |-> 400,
        error |-> "Failed to increment download count or file has expired."]
  ELSE [status |-> 200, error |-> ""]

\* ServeResponse without the branch for an RPC error.
ServeResponseSwallowError(fileId, rpc) ==
  IF fileId = 0
  THEN [status |-> 400, error |-> "Missing fileId parameter"]
  ELSE IF ~rpc.error /\ rpc.data = FALSE
  THEN [status |-> 403, error |-> "File has reached its download limit or expired."]
  ELSE [status |-> 200, error |-> ""]

\* ServeResponse with the test of data inverted (data !== false).
ServeResponseInverted(fileId, rpc) ==
  IF fileId = 0
  THEN [status |-> 400, error |-> "Missing fileId parameter"]
  ELSE IF rpc.error
  THEN [status |-> 400,
        error |-> "Failed to increment download count or file has expired."]
  ELSE IF rpc.data # FALSE
  THEN [status |-> 403, error |-> "File has reached its download limit or expired."]
  ELSE [status |-> 200, error |-> ""]

\* The response for a request body {fileId}, given what the RPC call
\* returned ({data, error}); rpc is used only when fileId is present.  A
\* null data is a record without the field data.
ServeResponse(fileId, rpc) ==
  IF fileId = 0
  THEN [status |-> 400, error |-> "Missing fileId parameter"]
  ELSE IF rpc.error
  THEN [status |-> 400,
        error |-> "Failed to increment download count or file has expired."]
  ELSE IF "data" \in DOMAIN rpc /\ rpc.data = FALSE
  THEN [status |-> 403, error |-> "File has reached its download limit or expired."]
  ELSE [status |-> 200, error |-> ""]

NoCall == [status |-> 0, error |-> ""]
CallSent == [status |-> -1, error |-> ""]
\* functions.invoke could not reach the function: an error with no response.
CallFetchError == [status |-> -2, error |-> ""]

\* ------------------------------------------------------------------- Init

InitReceiver ==
  [fileId |-> 0, status |-> "loading", metadata |-> NoRow, downloadCode |-> <<>>,
   errorMessage |-> "", isCodeVerified |-> FALSE, instructions |-> NullText,
   fileKey |-> <<>>, call |-> NoCall,
   \* of the current or last run of handleDownload: the bytes storage
   \* handed over (blob) and the file saved through the download link
   blob |-> NoBlob, saved |-> NoBlob]

LabOff == [stage |-> "off"]

SystemInit ==
  /\ files = [i \in Ids |-> NoRow]
  /\ storage = [i \in Ids |-> NoBlob]
  /\ now = 0
  /\ sender = [file |-> NoFile, status |-> "idle", shareUrl |-> NoUrl,
               errorMessage |-> "", pending |-> NoPending]
  /\ rcv = [r \in Receivers |-> InitReceiver]
  /\ ledgerLog = [i \in Ids |-> [allowed |-> 0, denied |-> FALSE]]
  /\ wire = {}

Init == SystemInit /\ lab = LabOff

\* ------------------------------------------------------------- UploadPage

\* onDrop: a file is chosen.  (The drop zone is not shown after success; a
\* drop while an upload is running is left out.)
OnDrop(f) ==
  /\ sender.status \notin {"success", "uploading"}
  /\ sender' = [sender EXCEPT !.file = f, !.status = "idle", !.errorMessage = ""]
  /\ wire' = {}
  /\ UNCHANGED <<files, storage, now, rcv, ledgerLog, lab>>

\* handleUpload's calls of generateDownloadCode() and encryptFile(file, code,
\* instructions), tabulated over the inputs and the outcomes of the random
\* source.
SenderCode ==
  [tape \in RandomTapes |-> generateDownloadCode(DEFAULT_CODE_LENGTH, tape.codeBytes)]
SenderEncrypt ==
  [f \in FilePool |-> [note \in NotePool |-> [tape \in RandomTapes |->
     encryptFile(f, SenderCode[tape], note, tape)]]]

\* The body of the storage upload request.
UploadRequest(filePath, ciphertext) ==
  [to |-> "storage", op |-> "upload", id |-> filePath,
   body |-> [ciphertext |-> ciphertext]]

\* handleUpload up to the answer of storage.upload: the code is drawn, the
\* file encrypted (encOk: no step of encryptFile rejected), the id drawn,
\* the ciphertext stored (or not).  The form's settings are read here, when
\* the handler starts.
HandleUploadStore(tape, instructions, expiresInHours, maxDownloads, accent, fileId, encOk, netOk) ==
  /\ sender.file # NoFile
  /\ sender.status # "uploading"
  /\ LET code == SenderCode[tape]
         enc == SenderEncrypt[sender.file][instructions][tape]
         stored == netOk /\ storage[fileId] = NoBlob
     IN  IF ~encOk
         THEN /\ wire' = {}
              /\ storage' = storage
              /\ sender' = [sender EXCEPT
                   !.status = "error",
                   !.errorMessage = "Encryption error",
                   !.pending = NoPending]
         ELSE
         /\ wire' = {UploadRequest(fileId, enc.ciphertext)}
         /\ IF stored
            THEN /\ storage' = [storage EXCEPT ![fileId] = enc.ciphertext]
                 /\ sender' = [sender EXCEPT
                      !.status = "uploading", !.errorMessage = "",
                      !.pending = [fileId |-> fileId, code |-> code,
                                   envelope |-> enc.envelope,
                                   expiresInHours |-> expiresInHours,
                                   maxDownloads |-> maxDownloads,
                                   accent |-> accent]]
            ELSE /\ storage' = storage
                 /\ sender' = [sender EXCEPT
                      !.status = "error",
                      !.errorMessage = "Storage error",
                      !.pending = NoPending]
  /\ UNCHANGED <<files, now, rcv, ledgerLog, lab>>

\* InsertPayload without the spread of the envelope.
InsertPayloadNoEnvelope(p, clock) ==
  [id |-> p.fileId,
   expires_at |-> clock + p.expiresInHours,
   max_downloads |-> p.maxDownloads,
   theme_accent |-> p.accent]

\* InsertPayload with the download code stored beside the envelope.
InsertPayloadWithCode(p, clock) ==
  [id |-> p.fileId, download_code |-> p.code] @@ p.envelope
    @@ [expires_at |-> clock + p.expiresInHours,
        max_downloads |-> p.maxDownloads,
        theme_accent |-> p.accent]

\* The row handleUpload inserts.
InsertPayload(p, clock) ==
  [id |-> p.fileId] @@ p.envelope
    @@ [expires_at |-> clock + p.expiresInHours,
        max_downloads |-> p.maxDownloads,
        theme_accent |-> p.accent]

InsertRequest(payload) ==
  [to |-> "database", op |-> "insert", id |-> payload.id, body |-> payload]

\* handleUpload from the answer of storage.upload on: the envelope row is
\* inserted and the share URL built, or the error shown.
HandleUploadInsert(netOk) ==
  /\ sender.pending # NoPending
  /\ LET p == sender.pending
         payload == InsertPayload(p, now)
         inserted == netOk /\ files[p.fileId] = NoRow
     IN  /\ wire' = {InsertRequest(payload)}
         /\ IF inserted
            THEN /\ files' = [files EXCEPT ![p.fileId] = FilesInsertRow(payload)]
                 /\ sender' = [sender EXCEPT
                      !.status = "success",
                      !.shareUrl = [fileId |-> p.fileId, fragment |-> p.code],
                      !.pending = NoPending]
            ELSE /\ files' = files
                 /\ sender' = [sender EXCEPT
                      !.status = "error",
                      !.errorMessage = "Database error",
                      !.pending = NoPending]
  /\ UNCHANGED <<storage, now, rcv, ledgerLog, lab>>

\* ----------------------------------------------------------- DownloadPage

FetchRequest(fileId) ==
  [to |-> "database", op |-> "select", id |-> fileId, body |-> [id |-> fileId]]
InvokeRequest(fileId) ==
  [to |-> "function", op |-> "increment-download-count", id |-> fileId,
   body |-> [fileId |-> fileId]]
DownloadRequest(fileId) ==
  [to |-> "storage", op |-> "download", id |-> fileId, body |-> [path |-> fileId]]

\* Snapshot keeping download_count as select("*") returns it.
SnapshotWithCount(row) == row

\* The row as the page keeps it.  The page never reads download_count, and
\* the snapshot is kept without it.
Snapshot(row) == [f \in DOMAIN row \ {"download_count"} |-> row[f]]

\* The mount effect of a page opened at /d/<fileId>#<initialCode>: the code
\* field is prefilled and the envelope row fetched.
GetMetadata(r, fileId, initialCode) ==
  /\ rcv[r].fileId = 0
  /\ wire' = {FetchRequest(fileId)}
  /\ rcv' = [rcv EXCEPT ![r] =
       IF files[fileId] = NoRow
       THEN [@ EXCEPT !.fileId = fileId, !.downloadCode = initialCode,
                      !.status = "error",
                      !.errorMessage =
                        "File not found, expired, or has reached its download limit."]
       ELSE [@ EXCEPT !.fileId = fileId, !.downloadCode = initialCode,
                      !.metadata = Snapshot(files[fileId]), !.status = "idle"]]
  /\ UNCHANGED <<files, storage, now, sender, ledgerLog, lab>>

\* The code form is rendered.
CodeFormShown(p) ==
  /\ p.status \in {"idle", "verifying", "ready", "decrypting"}
  /\ p.metadata # NoRow
  /\ ~p.isCodeVerified

\* onChange of the code field.
SetDownloadCode(r, code) ==
  /\ CodeFormShown(rcv[r])
  /\ code # rcv[r].downloadCode
  /\ rcv' = [rcv EXCEPT ![r].downloadCode = code]
  /\ wire' = {}
  /\ UNCHANGED <<files, storage, now, sender, ledgerLog, lab>>

\* The page after handleVerifyCode has run.
VerifyCodeResult(p) ==
  LET key == getFileKey(p.metadata, p.downloadCode)
  IN  IF key.ok
      THEN [p EXCEPT !.errorMessage = "",
                     !.fileKey = key.key,
                     !.instructions = decryptInstructions(p.metadata, key.key),
                     !.isCodeVerified = TRUE,
                     !.status = "ready"]
      ELSE [p EXCEPT !.errorMessage = key.error, !.status = "error"]

\* handleVerifyCode ("Verify Code"; the button is disabled without a code).
HandleVerifyCode(r) ==
  /\ CodeFormShown(rcv[r])
  /\ rcv[r].downloadCode # <<>>
  /\ rcv[r].status # "verifying"
  /\ rcv' = [rcv EXCEPT ![r] = VerifyCodeResult(@)]
  /\ wire' = {}
  /\ UNCHANGED <<files, storage, now, sender, ledgerLog, lab>>

\* CanDownload with the button shown before verification and without the
\* handler's test of fileKey.
CanDownloadUnverified(p) ==
  /\ p.metadata # NoRow
  /\ p.status \notin {"decrypting", "loading"}
  /\ p.fileId # 0

\* handleDownload may start: the button is rendered and enabled, and the
\* handler's own guard passes.
CanDownload(p) ==
  /\ p.isCodeVerified
  /\ p.metadata # NoRow
  /\ p.status # "decrypting"
  /\ p.fileId # 0
  /\ p.fileKey # <<>>

\* The log after one more response.
Logged(log, response) ==
  IF response.status = 200 THEN [log EXCEPT !.allowed = @ + 1]
  ELSE IF response.status = 403 THEN [log EXCEPT !.denied = TRUE]
  ELSE log

\* handleDownload up to the call of the ledger endpoint.
HandleDownloadInvoke(r) ==
  /\ CanDownload(rcv[r])
  /\ rcv' = [rcv EXCEPT ![r].status = "decrypting", ![r].errorMessage = "",
                        ![r].call = CallSent,
                        ![r].blob = NoBlob, ![r].saved = NoBlob]
  /\ wire' = {InvokeRequest(rcv[r].fileId)}
  /\ UNCHANGED <<files, storage, now, sender, ledgerLog, lab>>

\* The edge function serves r's request: the RPC runs as one transaction
\* and its answer becomes the response.
Serve(r) ==
  /\ rcv[r].call = CallSent
  /\ LET fileId == rcv[r].fileId
         rpc == RpcIncrementDownloadCount(files, fileId, now)
         response == ServeResponse(fileId, [data |-> rpc.data, error |-> FALSE])
     IN  /\ files' = rpc.table
         /\ rcv' = [rcv EXCEPT ![r].call = response]
         /\ ledgerLog' = [ledgerLog EXCEPT ![fileId] = Logged(@, response)]
  /\ wire' = {}
  /\ UNCHANGED <<storage, now, sender, lab>>

\* The edge function serves r's request and the RPC call fails (the
\* database is unreachable): nothing is committed.
ServeRpcError(r) ==
  /\ rcv[r].call = CallSent
  /\ LET response == ServeResponse(rcv[r].fileId, [data |-> FALSE, error |-> TRUE])
     IN  /\ rcv' = [rcv EXCEPT ![r].call = response]
         /\ ledgerLog' = [ledgerLog EXCEPT ![rcv[r].fileId] = Logged(@, response)]
  /\ wire' = {}
  /\ UNCHANGED <<files, storage, now, sender, lab>>

\* functions.invoke fails before the function runs.
InvokeFails(r) ==
  /\ rcv[r].call = CallSent
  /\ rcv' = [rcv EXCEPT ![r].call = CallFetchError]
  /\ wire' = {}
  /\ UNCHANGED <<files, storage, now, sender, ledgerLog, lab>>

\* Bytes that differ from the stored ones (damage in storage or in transit).
Corrupt(bytes) ==
  IF bytes = <<>> THEN <<0>>
  ELSE [bytes EXCEPT ![Len(bytes)] = (@ + 1) % 256]

\* What storage.download(fileId) can hand back: the bytes stored, damaged
\* bytes, or an error (NoBlob).
DownloadOutcomes(store, fileId) ==
  IF store[fileId] = NoBlob THEN {NoBlob}
  ELSE {store[fileId], Corrupt(store[fileId]), NoBlob}

MsgLinkExpired == "This link has expired or reached its download limit."

\* DownloadResult without the test of functionError.
DownloadResultUnchecked(p, blob) ==
  IF blob = NoBlob
  THEN [p EXCEPT !.call = NoCall, !.status = "error",
                 !.errorMessage = "Failed to download file"]
  ELSE LET dec == decryptFile(blob, p.metadata, p.fileKey)
       IN  IF dec.ok
           THEN [p EXCEPT !.call = NoCall, !.status = "success",
                          !.blob = blob, !.saved = dec.content]
           ELSE [p EXCEPT !.call = NoCall, !.status = "error",
                          !.blob = blob, !.errorMessage = dec.error]

\* The page after the rest of handleDownload has run on the function's
\* answer; blob is what storage.download hands back if it is called.
DownloadResult(p, blob) ==
  IF p.call.status # 200
  THEN [p EXCEPT !.call = NoCall, !.status = "error",
                 !.errorMessage =
                   IF p.call.error # "" THEN p.call.error ELSE MsgLinkExpired]
  ELSE IF blob = NoBlob
  THEN [p EXCEPT !.call = NoCall, !.status = "error",
                 !.errorMessage = "Failed to download file"]
  ELSE LET dec == decryptFile(blob, p.metadata, p.fileKey)
       IN  IF dec.ok
           THEN [p EXCEPT !.call = NoCall, !.status = "success",
                          !.blob = blob, !.saved = dec.content]
           ELSE [p EXCEPT !.call = NoCall, !.status = "error",
                          !.blob = blob, !.errorMessage = dec.error]

\* handleDownload from the answer of the ledger endpoint on.
HandleDownloadFinish(r, blob) ==
  /\ rcv[r].call \notin {NoCall, CallSent}
  /\ blob \in DownloadOutcomes(storage, rcv[r].fileId)
  /\ rcv' = [rcv EXCEPT ![r] = DownloadResult(@, blob)]
  /\ wire' = IF rcv[r].call.status = 200
             THEN {DownloadRequest(rcv[r].fileId)}
             ELSE {}
  /\ UNCHANGED <<files, storage, now, sender, ledgerLog, lab>>

\* Time passes.
Tick ==
  /\ now < MaxTime
  /\ now' = now + 1
  /\ wire' = {}
  /\ UNCHANGED <<files, storage, sender, rcv, ledgerLog, lab>>

Next ==
  \/ \E f \in FilePool : OnDrop(f)
  \/ \E tape \in RandomTapes, note \in NotePool, e \in ExpiryChoices,
        m \in LimitChoices, a \in AccentPool, id \in Ids,
        encOk \in BOOLEAN, netOk \in BOOLEAN :
       HandleUploadStore(tape, note, e, m, a, id, encOk, netOk)
  \/ \E netOk \in BOOLEAN : HandleUploadInsert(netOk)
  \/ \E r \in Receivers, id \in Ids, code \in TypedCodes \cup {<<>>} :
       GetMetadata(r, id, code)
  \/ \E r \in Receivers, code \in TypedCodes \cup {<<>>} : SetDownloadCode(r, code)
  \/ \E r \in Receivers : HandleVerifyCode(r)
  \/ \E r \in Receivers : HandleDownloadInvoke(r)
  \/ \E r \in Receivers : Serve(r)
  \/ \E r \in Receivers : ServeRpcError(r)
  \/ \E r \in Receivers : InvokeFails(r)
  \/ \E r \in Receivers, blob \in {NoBlob} \cup UNION {DownloadOutcomes(storage, i) : i \in Ids} :
       HandleDownloadFinish(r, blob)
  \/ Tick

Spec == Init /\ [][Next]_vars

\* ------------------------------------------- one flow, wide crypto inputs
\* SpecCrypto runs one sender flow and then one recipient page on its
\* result, without the network in between, over more files, codes, notes
\* and outcomes of the random source than Spec does.

LabFiles ==
  {[name |-> "report.txt", type |-> "text/plain", content |-> <<104, 105, 10>>],
   [name |-> "empty.bin", type |-> "application/octet-stream", content |-> <<>>]}

\* Download codes: two of the default length, one of six symbols.
LabCodes ==
  {generateDownloadCode(DEFAULT_CODE_LENGTH, <<255, 18, 52, 86, 120, 154, 188>>),
   generateDownloadCode(DEFAULT_CODE_LENGTH, <<254, 18, 52, 86, 120, 154, 188>>),
   generateDownloadCode(6, <<0, 68, 50, 20>>)}

\* Notes: none, blank, "ok", one with a two-byte character, one that
\* starts with U+FEFF, and one with a surrogate that has no partner.
LabNotes ==
  {<<>>, <<32>>, <<111, 107>>, <<233, 33>>, <<65279, 104>>, <<55357, 33>>}

LabKeys == {<<240>>, <<17>>}
LabSalts == {<<0, 171>>, <<255, 16>>}
LabIvs == {<<9>>, <<130>>, <<4>>}

LabTapes ==
  [codeBytes : {<<>>}, fileKey : LabKeys, salt : LabSalts, wrapIv : LabIvs,
   iv : LabIvs, instructions_iv : LabIvs]

LabInit ==
  /\ SystemInit
  /\ lab \in [stage : {"input"}, file : LabFiles, code : LabCodes,
              note : LabNotes, tape : LabTapes,
              ciphertext : {NoBlob}, page : {InitReceiver}]

\* encryptFile, then the row as handleUpload inserts it and as the page
\* opened on it holds it.
LabEncrypt ==
  /\ lab.stage = "input"
  /\ LET enc == encryptFile(lab.file, lab.code, lab.note, lab.tape)
         row == FilesInsertRow(InsertPayload(
                  [fileId |-> 1, envelope |-> enc.envelope, expiresInHours |-> 1,
                   maxDownloads |-> 1, accent |-> "teal"], 0))
     IN  lab' = [lab EXCEPT
           !.stage = "page",
           !.ciphertext = enc.ciphertext,
           !.page = [InitReceiver EXCEPT !.fileId = 1, !.status = "idle",
                                         !.metadata = Snapshot(row)]]
  /\ UNCHANGED System

\* The recipient types a code.
LabSetDownloadCode(code) ==
  /\ lab.stage = "page"
  /\ CodeFormShown(lab.page)
  /\ lab.page.downloadCode = <<>>
  /\ lab' = [lab EXCEPT !.page.downloadCode = code]
  /\ UNCHANGED System

\* handleVerifyCode.
LabVerifyCode ==
  /\ lab.stage = "page"
  /\ CodeFormShown(lab.page)
  /\ lab.page.downloadCode # <<>>
  /\ lab.page.status # "verifying"
  /\ lab' = [lab EXCEPT !.page = VerifyCodeResult(@)]
  /\ UNCHANGED System

\* handleDownload, the ledger allowing it; storage hands back blob.
LabDownload(blob) ==
  /\ lab.stage = "page"
  /\ CanDownload(lab.page)
  /\ lab.page.status = "ready"
  /\ lab' = [lab EXCEPT !.page =
       DownloadResult(
         [@ EXCEPT !.status = "decrypting", !.errorMessage = "",
                   !.call = ServeResponse(1, [data |-> TRUE, error |-> FALSE])],
         blob)]
  /\ UNCHANGED System

LabNext ==
  \/ LabEncrypt
  \/ \E code \in LabCodes : LabSetDownloadCode(code)
  \/ LabVerifyCode
  \/ \E blob \in {lab.ciphertext, Corrupt(lab.ciphertext)} : LabDownload(blob)

SpecCrypto == LabInit /\ [][LabNext]_vars

\* ------------------------------------------- a row with a damaged field
\* SpecTamper is the flow of SpecCrypto on one outcome of the random source,
\* where the row the page fetched may carry one binary field that is not
\* well-formed hex.

HexFields ==
  {"salt", "wrapped_file_key", "wrap_iv", "iv", "instructions_iv",
   "encrypted_instructions"}

\* Text that is not well-formed hex: hex with one more character ("5"), or
\* with its last character replaced by "g".
Malform(hex, kind) ==
  IF kind = "odd" THEN Append(hex, 53)
  ELSE [hex EXCEPT ![Len(hex)] = 103]

\* Odd length, or a character that is no hex digit.
IsMalformedHex(hex) ==
  Len(hex) % 2 = 1 \/ \E i \in 1..Len(hex) : HexVal(hex[i]) < 0

Tampered(m) == \E f \in HexFields \cap DOMAIN m : IsMalformedHex(m[f])

TamperInit ==
  /\ SystemInit
  /\ lab \in [stage : {"input"}, file : LabFiles,
              code : {SenderCode[t] : t \in RandomTapes},
              note : {<<>>, <<111, 107>>},
              tape : {[codeBytes |-> <<>>, fileKey |-> <<240>>, salt |-> <<0, 171>>,
                       wrapIv |-> <<9>>, iv |-> <<130>>, instructions_iv |-> <<4>>]},
              ciphertext : {NoBlob}, page : {InitReceiver}]

\* The row fetchMetadata returned has field f damaged.
LabTamper(f, kind) ==
  /\ lab.stage = "page"
  /\ lab.page.status = "idle"
  /\ lab.page.downloadCode = <<>>
  /\ ~Tampered(lab.page.metadata)
  /\ f \in DOMAIN lab.page.metadata
  /\ lab' = [lab EXCEPT !.page.metadata[f] = Malform(@, kind)]
  /\ UNCHANGED System

\* KDF parameters other than this build's constants.
OtherKdfParams ==
  {[name |-> "PBKDF2", iterations |-> 100000, hash |-> "SHA-256"],
   [name |-> "PBKDF2", iterations |-> 250000, hash |-> "SHA-1"]}

\* The row is one a sender running with the KDF parameters params created
\* for the same file, code and draws: it records params in kdf_params and
\* its file key is wrapped under the KEK derived with them.
LabOtherSender(params) ==
  /\ lab.stage = "page"
  /\ lab.page.status = "idle"
  /\ lab.page.downloadCode = <<>>
  /\ ~Tampered(lab.page.metadata)
  /\ lab.page.metadata.kdf_params.iterations = KDF_ITERATIONS
  /\ lab.page.metadata.kdf_params.hash = KDF_HASH
  /\ LET kek == Pbkdf2(TextEncode(lab.code), lab.tape.salt,
                       params.iterations, params.hash)
         wrapped == wrapFileKey(lab.tape.fileKey, kek, lab.tape.wrapIv)
     IN  lab' = [lab EXCEPT
           !.page.metadata.kdf_params = params,
           !.page.metadata.wrapped_file_key = arrayBufferToHex(wrapped.wrappedKey)]
  /\ UNCHANGED System

\* Well-formed hex that differs from hex in its last digit.
AlterHex(hex) == [hex EXCEPT ![Len(hex)] = IF @ = 48 THEN 49 ELSE 48]

\* The row fetchMetadata returned has the note's ciphertext or an IV of the
\* content or the note altered (still well-formed hex).
LabAlter(f) ==
  /\ lab.stage = "page"
  /\ lab.page.status = "idle"
  /\ lab.page.downloadCode = <<>>
  /\ ~Tampered(lab.page.metadata)
  /\ f \in DOMAIN lab.page.metadata
  /\ lab' = [lab EXCEPT !.page.metadata[f] = AlterHex(@)]
  /\ UNCHANGED System

TamperNext ==
  \/ \E f \in {"encrypted_instructions", "instructions_iv", "iv"} : LabAlter(f)
  \/ LabNext
  \/ \E f \in HexFields, kind \in {"odd", "nonhex"} : LabTamper(f, kind)
  \/ \E params \in OtherKdfParams : LabOtherSender(params)

SpecTamper == TamperInit /\ [][TamperNext]_vars

\* ------------------------------------------------ the codecs on their own
\* SpecCodec draws a code length and the bytes of the random source one by
\* one, encodes them into a download code, and takes them through the hex
\* codec and back.

\* The largest code length requested.
MaxCodeLength == 10

\* The values a drawn byte takes here.
BytePool == {0, 9, 171, 255}

CodecInit ==
  /\ SystemInit
  /\ lab \in [stage : {"draw"}, length : 0..MaxCodeLength, randomBytes : {<<>>},
              code : {<<>>}, hex : {<<>>}, view : {<<>>}]

\* crypto.getRandomValues fills the next byte of the array.
CodecDraw(b) ==
  /\ lab.stage = "draw"
  /\ Len(lab.randomBytes) < CodeEntropyBytes(lab.length)
  /\ lab' = [lab EXCEPT !.randomBytes = Append(@, b)]
  /\ UNCHANGED System

\* generateDownloadCode(length) on the filled array.
CodecGenerate ==
  /\ lab.stage = "draw"
  /\ Len(lab.randomBytes) = CodeEntropyBytes(lab.length)
  /\ lab' = [lab EXCEPT !.stage = "code",
                        !.code = generateDownloadCode(lab.length, lab.randomBytes)]
  /\ UNCHANGED System

\* arrayBufferToHex on the same bytes.
CodecToHex ==
  /\ lab.stage = "code"
  /\ lab' = [lab EXCEPT !.stage = "hex", !.hex = arrayBufferToHex(lab.randomBytes)]
  /\ UNCHANGED System

\* hexToArrayBuffer on the text.
CodecFromHex ==
  /\ lab.stage = "hex"
  /\ lab' = [lab EXCEPT !.stage = "view", !.view = hexToArrayBuffer(lab.hex)]
  /\ UNCHANGED System

CodecNext ==
  \/ \E b \in BytePool : CodecDraw(b)
  \/ CodecGenerate
  \/ CodecToHex
  \/ CodecFromHex

SpecCodec == CodecInit /\ [][CodecNext]_vars

\* ================================================================ claims

HasRow(id) == files[id] # NoRow
Unexpired(id) == files[id].expires_at > now
Expired(id) == files[id].expires_at <= now
Exhausted(id) == files[id].download_count >= files[id].max_downloads

\* r's ledger call is in flight / has been answered with status s.
InFlight(r) == rcv[r].call = CallSent
Holds(r, s) == rcv[r].call.status = s

\* C1: for an envelope with max_downloads = 1 that has not expired, however
\* the ledger calls of the pages interleave, as soon as the ledger has
\* answered any call exactly one call was answered Allowed (200) and every
\* other answer was Denied (403); never are two calls allowed.
C1_ExactlyOneAllowed ==
  \A id \in Ids :
    (HasRow(id) /\ files[id].max_downloads = 1) =>
      /\ ledgerLog[id].allowed <= 1
      /\ (Unexpired(id) /\ (ledgerLog[id].allowed > 0 \/ ledgerLog[id].denied))
           => ledgerLog[id].allowed = 1
      /\ Cardinality({r \in Receivers : rcv[r].fileId = id /\ Holds(r, 200)}) <= 1

\* Two pages called concurrently: both answers are pending on the pages,
\* one Allowed and one Denied, on an unexpired envelope with limit 1.
C1_Witness ==
  \E r1, r2 \in Receivers :
    /\ r1 # r2
    /\ rcv[r1].fileId = rcv[r2].fileId
    /\ Holds(r1, 200) /\ Holds(r2, 403)
    /\ files[rcv[r1].fileId].max_downloads = 1
    /\ Unexpired(rcv[r1].fileId)

\* C2: for every envelope, download_count never exceeds max_downloads and
\* equals the number of Allowed (200) responses issued for it.
C2_CountIsAllowed ==
  \A id \in Ids :
    HasRow(id) =>
      /\ files[id].download_count <= files[id].max_downloads
      /\ files[id].download_count = ledgerLog[id].allowed

C2_Witness ==
  \E id \in Ids :
    /\ HasRow(id)
    /\ files[id].max_downloads = 2
    /\ files[id].download_count = 2
    /\ ledgerLog[id].denied

\* C3: a page obtains the stored ciphertext only in a step that follows an
\* Allowed (200) answer to its own ledger call, and a page whose call was
\* not allowed holds no ciphertext of that run.
C3_ReleaseStep ==
  \A r \in Receivers :
    (rcv'[r].blob # NoBlob /\ rcv'[r].blob # rcv[r].blob) => Holds(r, 200)
C3_ReleaseAfterAllowed ==
  [][C3_ReleaseStep
     /\ \A r \in Receivers :
          (rcv'[r].call.status \in {403, 400, -2}) => rcv'[r].blob = NoBlob]_vars

\* One page got and decrypted the file; another was denied and has nothing.
C3_Witness ==
  \E r1, r2 \in Receivers :
    /\ rcv[r1].status = "success" /\ rcv[r1].blob = storage[rcv[r1].fileId]
    /\ rcv[r2].status = "error" /\ rcv[r2].blob = NoBlob
    /\ rcv[r2].errorMessage = "File has reached its download limit or expired."

\* C4: a ledger call on an expired envelope is never answered Allowed,
\* whatever download_count is, and leaves the row as it was.
C4_ExpiredStep ==
  \A r \in Receivers :
    (InFlight(r) /\ HasRow(rcv[r].fileId) /\ Expired(rcv[r].fileId)
       /\ rcv'[r].call # rcv[r].call)
      => /\ rcv'[r].call.status # 200
         /\ files' = files
C4_ExpiredIsDenied == [][C4_ExpiredStep]_vars

\* A 403 on an envelope that has downloads left: it was denied for expiry.
C4_Witness ==
  \E r \in Receivers :
    /\ Holds(r, 403)
    /\ files[rcv[r].fileId].download_count = 0
    /\ files[rcv[r].fileId].max_downloads >= 1
    /\ files[rcv[r].fileId].expires_at < now

\* C5: once an envelope is exhausted or expired it stays so in every step,
\* and no step answers a ledger call on it Allowed.
Terminal(id) == HasRow(id) /\ (Exhausted(id) \/ Expired(id))
C5_TerminalStep ==
  \A id \in Ids :
    Terminal(id) =>
      /\ Terminal(id)'
      /\ ledgerLog'[id].allowed = ledgerLog[id].allowed
      /\ \A r \in Receivers :
           (rcv[r].fileId = id /\ InFlight(r)) => rcv'[r].call.status # 200
C5_TerminalForever == [][C5_TerminalStep]_vars

\* An exhausted envelope whose later call was denied, still exhausted at the
\* end of the clock.
C5_Witness ==
  \E id \in Ids :
    /\ HasRow(id) /\ Exhausted(id) /\ files[id].expires_at > MaxTime
    /\ ledgerLog[id].denied
    /\ now = MaxTime

\* C6: a step in which the ledger endpoint does not answer Allowed changes
\* no row, and download_count changes only in a step that answers a call on
\* that envelope Allowed, by exactly one.
C6_FrameStep ==
  /\ (\A r \in Receivers : rcv'[r].call.status = 200 => rcv[r].call.status = 200)
       => \A id \in Ids : HasRow(id) => files'[id] = files[id]
  /\ \A id \in Ids :
       (HasRow(id) /\ files'[id] # files[id]) =>
         /\ files'[id] = [files[id] EXCEPT !.download_count = @ + 1]
         /\ \E r \in Receivers :
              /\ rcv[r].fileId = id /\ InFlight(r)
              /\ rcv'[r].call.status = 200
C6_DeniedChangesNothing == [][C6_FrameStep]_vars

\* A denied answer on an envelope that has been downloaded before.
C6_Witness ==
  \E r \in Receivers :
    /\ Holds(r, 403)
    /\ files[rcv[r].fileId].download_count >= 1
    /\ Unexpired(rcv[r].fileId)

\* C7: round trip.  With the code the file was encrypted under, the page
\* unwraps the very file key the sender drew, and decrypting the stored
\* ciphertext yields exactly the file's content.
C7_RoundTrip ==
  (lab.stage = "page" /\ lab.page.downloadCode = lab.code) =>
    /\ lab.page.status # "idle" =>
         /\ lab.page.isCodeVerified
         /\ lab.page.fileKey = lab.tape.fileKey
    /\ lab.page.blob = lab.ciphertext =>
         /\ lab.page.status = "success"
         /\ lab.page.saved = lab.file.content

C7_Witness ==
  /\ lab.stage = "page"
  /\ lab.page.status = "success"
  /\ lab.page.saved = <<104, 105, 10>>
  /\ lab.tape.salt = <<0, 171>>
  /\ lab.note = <<233, 33>>

\* C8: with any other code, getFileKey fails with the unwrap error; the
\* page gets no file key, is not verified, and never fetches or saves
\* anything.
C8_WrongCodeRejected ==
  (lab.stage = "page" /\ lab.page.downloadCode \notin {<<>>, lab.code}) =>
    /\ ~getFileKey(lab.page.metadata, lab.page.downloadCode).ok
    /\ getFileKey(lab.page.metadata, lab.page.downloadCode).error = MsgUnwrapFailed
    /\ lab.page.fileKey = <<>>
    /\ ~lab.page.isCodeVerified
    /\ lab.page.blob = NoBlob /\ lab.page.saved = NoBlob
    /\ lab.page.status \in {"idle", "error"}
    /\ lab.page.status = "error" => lab.page.errorMessage = MsgUnwrapFailed

C8_Witness ==
  /\ lab.stage = "page"
  /\ lab.page.downloadCode \notin {<<>>, lab.code}
  /\ lab.page.status = "error"
  /\ lab.page.errorMessage = MsgUnwrapFailed

\* A page on which the key unwrap failed / on which the content tag check
\* failed after the ciphertext had been fetched.
UnwrapFailed(r) ==
  rcv[r].status = "error" /\ rcv[r].metadata # NoRow /\ ~rcv[r].isCodeVerified
TagMismatch(r) ==
  rcv[r].status = "error" /\ rcv[r].blob # NoBlob
AuthFailed(r) == UnwrapFailed(r) \/ TagMismatch(r)

\* C9: any two pages that failed authentication, at the key unwrap or at
\* the content tag, show the same message.
C9_OneGenericMessage ==
  \A r1, r2 \in Receivers :
    (AuthFailed(r1) /\ AuthFailed(r2)) => rcv[r1].errorMessage = rcv[r2].errorMessage

\* The values that must stay on the clients: the download code, the file
\* key and the KEK, raw, as text bytes and in hex.
SenderSecrets ==
  UNION {LET code == SenderCode[tape]
             kek == deriveKek(code, tape.salt)
         IN  {code, TextEncode(code), arrayBufferToHex(TextEncode(code)),
              tape.fileKey, arrayBufferToHex(tape.fileKey),
              kek, arrayBufferToHex(kek)} : tape \in RandomTapes}

EnvelopeFields ==
  {"filename", "mime_type", "size", "alg", "iv", "salt", "kdf_params",
   "wrapped_file_key", "wrap_iv", "encrypted_instructions", "instructions_iv"}
ByteFields ==
  {"iv", "salt", "wrapped_file_key", "wrap_iv", "encrypted_instructions",
   "instructions_iv", "ciphertext"}
AllowedFields(op) ==
  IF op = "insert"
  THEN {"id", "expires_at", "max_downloads", "theme_accent"} \cup EnvelopeFields
  ELSE IF op = "upload" THEN {"ciphertext"}
  ELSE IF op = "select" THEN {"id"}
  ELSE IF op = "increment-download-count" THEN {"fileId"}
  ELSE IF op = "download" THEN {"path"}
  ELSE {}

\* C10: every request a client puts on the network addresses a file id and
\* carries only the ciphertext, the envelope fields, expires_at,
\* max_downloads, theme_accent or the file id; none of its binary fields is
\* the download code, the file key or the KEK; the code is in the share
\* URL's fragment only.
C10_NoSecretLeavesClient ==
  /\ \A m \in wire :
       /\ m.id \in Ids
       /\ DOMAIN m.body \subseteq AllowedFields(m.op)
       /\ \A f \in DOMAIN m.body \cap ByteFields : m.body[f] \notin SenderSecrets
  /\ sender.shareUrl # NoUrl =>
       /\ sender.shareUrl.fileId \in Ids
       /\ sender.shareUrl.fragment \in {SenderCode[t] : t \in RandomTapes}

\* The insert of a complete envelope, note included, is on the wire.
C10_Witness ==
  \E m \in wire :
    /\ m.op = "insert"
    /\ {"wrapped_file_key", "salt", "encrypted_instructions"} \subseteq DOMAIN m.body
    /\ sender.shareUrl.fragment = SenderCode[CHOOSE t \in RandomTapes : TRUE]

\* --------------------------------------------------------------------- C11

\* C11: once an envelope row exists, every field of it other than
\* download_count keeps its value in every later state, and what any page
\* holds after reading it equals those fields of the stored row, whatever
\* reads, verifications and ledger calls come in between.
FieldsButCount(row) == [f \in DOMAIN row \ {"download_count"} |-> row[f]]
C11_ImmutableStep ==
  /\ \A id \in Ids :
       HasRow(id) => /\ files'[id] # NoRow
                     /\ FieldsButCount(files'[id]) = FieldsButCount(files[id])
  /\ \A r \in Receivers :
       rcv'[r].metadata # NoRow =>
         rcv'[r].metadata = FieldsButCount(files'[rcv'[r].fileId])
SealIv(ct) == SubSeq(ct, ct[1] + 3, ct[1] + 2 + ct[ct[1] + 2])

\* The random source returned different values for the three IV draws.
DistinctIvDraws(tape) ==
  /\ tape.wrapIv # tape.iv
  /\ tape.wrapIv # tape.instructions_iv
  /\ tape.iv # tape.instructions_iv

\* C12: in encryptFile the key wrap, the content encryption and the note
\* encryption each seal under the IV of their own draw; the envelope
\* records those IVs (wrap_iv is the IV the wrap used); and when the draws
\* differ no IV is used by two of the encryptions.
C12_SeparateIvs ==
  lab.stage = "page" =>
    LET m == lab.page.metadata
        noted == "encrypted_instructions" \in DOMAIN m
        wrapUsed == SealIv(hexToArrayBuffer(m.wrapped_file_key))
        contentUsed == SealIv(lab.ciphertext)
        noteUsed == SealIv(hexToArrayBuffer(m.encrypted_instructions))
    IN  /\ wrapUsed = lab.tape.wrapIv
        /\ contentUsed = lab.tape.iv
        /\ noted => noteUsed = lab.tape.instructions_iv
        /\ hexToArrayBuffer(m.wrap_iv) = wrapUsed
        /\ hexToArrayBuffer(m.iv) = contentUsed
        /\ noted => hexToArrayBuffer(m.instructions_iv) = noteUsed
        /\ DistinctIvDraws(lab.tape) =>
             /\ wrapUsed # contentUsed
             /\ noted => (noteUsed # wrapUsed /\ noteUsed # contentUsed)

\* A flow with a note whose three IV draws differ has been encrypted.
C12_Witness ==
  /\ lab.stage = "page"
  /\ "encrypted_instructions" \in DOMAIN lab.page.metadata
  /\ DistinctIvDraws(lab.tape)
  /\ lab.tape.wrapIv = <<130>>

\* --------------------------------------------------------------------- C13

\* The key an AES-GCM output was sealed under (readable in the ideal
\* primitive's output).
SealKey(ct) == SubSeq(ct, 2, ct[1] + 1)

\* C13: the KEK the receiver derives from the right code and the envelope's
\* salt is the KEK the sender wrapped the file key under; a derivation that
\* differs in the code or in the salt gives another KEK.
C13_KdfDeterministic ==
  lab.stage = "page" =>
    LET m == lab.page.metadata
        senderKek == SealKey(hexToArrayBuffer(m.wrapped_file_key))
        receiverKek(code) == deriveKek(code, hexToArrayBuffer(m.salt))
    IN  /\ senderKek = deriveKek(lab.code, lab.tape.salt)
        /\ receiverKek(lab.code) = senderKek
        /\ \A c \in LabCodes \ {lab.code} : receiverKek(c) # senderKek
        /\ \A s \in LabSalts \ {lab.tape.salt} : deriveKek(lab.code, s) # senderKek
        /\ lab.page.isCodeVerified =>
             receiverKek(lab.page.downloadCode) = senderKek

\* The recipient has derived the KEK from the sender's code and unwrapped
\* the file key with it.
C13_Witness ==
  /\ lab.stage = "page"
  /\ lab.page.downloadCode = lab.code
  /\ lab.page.isCodeVerified
  /\ lab.page.status = "ready"
  /\ lab.tape.salt = <<255, 16>>

\* --------------------------------------------------------------------- C14

\* The characters 0, O, 1 and I.
AmbiguousChars == {48, 79, 49, 73}
Alphabet == {BASE32_CHARS[i] : i \in 1..Len(BASE32_CHARS)}

RequiredFields ==
  {"filename", "mime_type", "size", "alg", "iv", "salt", "kdf_params",
   "wrapped_file_key", "wrap_iv"}

\* C15: an envelope row appears only in the insert step of a sender flow
\* whose encryption and storage upload succeeded; it appears whole, with
\* every envelope field of the flow's encryptFile result, a wrapped key that
\* opens under the flow's code and a stored ciphertext that opens under the
\* file key; no flow writes a row twice, and a flow that ends in an error
\* before the insert leaves the table as it was.
C15_InsertStep ==
  /\ \A id \in Ids :
       (files[id] = NoRow /\ files'[id] # NoRow) =>
         LET p == sender.pending
             key == getFileKey(files'[id], p.code)
         IN  /\ p # NoPending /\ p.fileId = id
             /\ sender.status = "uploading" /\ sender'.status = "success"
             /\ \E m \in wire' : m.op = "insert" /\ m.id = id
             /\ RequiredFields \subseteq DOMAIN files'[id]
             /\ \A f \in DOMAIN p.envelope :
                  f \in DOMAIN files'[id] /\ files'[id][f] = p.envelope[f]
             /\ key.ok
             /\ storage[id] # NoBlob
             /\ decryptFile(storage[id], files'[id], key.key).ok
  /\ \A id \in Ids :
       HasRow(id) => ~(sender.pending # NoPending /\ sender.pending.fileId = id)
  /\ (sender'.status = "error" /\ sender.status # "error") => files' = files
  /\ (sender.pending # NoPending /\ sender'.pending = NoPending
        /\ sender'.status # "success") => files' = files
C15_SingleWholeInsert == [][C15_InsertStep]_vars

\* A flow has inserted its envelope, note included, and shows the share URL.
C15_Witness ==
  /\ files[1] # NoRow
  /\ "encrypted_instructions" \in DOMAIN files[1]
  /\ sender.status = "success"
  /\ sender.shareUrl.fileId = 1
  /\ \E m \in wire : m.op = "insert"

\* --------------------------------------------------------------------- C16

\* C16: when a binary field of the fetched row is malformed hex, the page
\* that has run handleVerifyCode shows an error, is not verified, and the
\* error is not one raised by a failed unwrap or decrypt call (the field was
\* rejected before those calls); no download follows.
C16_MalformedHexRejected ==
  (/\ lab.stage = "page"
   /\ Tampered(lab.page.metadata)
   /\ lab.page.status # "idle") =>
    /\ lab.page.status = "error"
    /\ ~lab.page.isCodeVerified
    /\ lab.page.errorMessage \notin {MsgUnwrapFailed, MsgFileDecryptFailed}
    /\ lab.page.saved = NoBlob

\* --------------------------------------------------------------------- C17

\* "0".."9", "a".."f"
LowerHexChars == (48..57) \cup (97..102)

\* C17: arrayBufferToHex(b) has exactly two lowercase hex characters per
\* byte, and hexToArrayBuffer gives b back byte for byte; this for every
\* single byte value and for every byte sequence drawn, the empty one
\* included.
EveryByteRoundTrips ==
  \A b \in 0..255 :
    /\ hexToArrayBuffer(arrayBufferToHex(<<b>>)) = <<b>>
    /\ Len(arrayBufferToHex(<<b>>)) = 2
C17_HexLossless ==
  /\ EveryByteRoundTrips
  /\ lab.stage \in {"hex", "view"} =>
       /\ Len(lab.hex) = 2 * Len(lab.randomBytes)
       /\ \A i \in 1..Len(lab.hex) : lab.hex[i] \in LowerHexChars
  /\ lab.stage = "view" => lab.view = lab.randomBytes

\* A sequence with a byte below 16 and bytes above 127 has gone through
\* both directions.
C17_Witness ==
  /\ lab.stage = "view"
  /\ Len(lab.randomBytes) >= 3
  /\ lab.randomBytes[1] = 9 /\ lab.randomBytes[2] = 171 /\ lab.randomBytes[3] = 255
  /\ lab.view = lab.randomBytes

\* --------------------------------------------------------------------- C18

\* C18: a page sends its ledger call only when handleVerifyCode has
\* succeeded on it, holding the file key unwrapped with the code entered; a
\* page not verified has no ledger call; download_count moves only for a
\* call of a verified page; and a verification that fails sends nothing
\* and leaves the table unchanged.
C18_LedgerStep ==
  /\ \A r \in Receivers :
       (rcv'[r].call = CallSent /\ rcv[r].call # CallSent) =>
         LET key == getFileKey(rcv[r].metadata, rcv[r].downloadCode)
         IN  /\ rcv[r].isCodeVerified
             /\ rcv[r].status \in {"ready", "success", "error"}
             /\ key.ok /\ key.key = rcv[r].fileKey
  /\ \A r \in Receivers : ~rcv'[r].isCodeVerified => rcv'[r].call = NoCall
  /\ \A id \in Ids :
       (HasRow(id) /\ files'[id].download_count # files[id].download_count) =>
         \E r \in Receivers :
           /\ rcv[r].fileId = id /\ rcv[r].call = CallSent
           /\ rcv[r].isCodeVerified
  /\ \A r \in Receivers :
       (/\ rcv'[r] # rcv[r]
        /\ rcv'[r].status = "error"
        /\ rcv'[r].errorMessage = MsgUnwrapFailed) =>
         /\ files' = files
         /\ wire' = {}
         /\ ~rcv'[r].isCodeVerified
C18_LedgerAfterUnwrap == [][C18_LedgerStep]_vars

\* One page failed verification with a wrong code while the other, verified,
\* has its ledger call in flight and the count still at zero.
C18_Witness ==
  /\ rcv[1].status = "error" /\ rcv[1].errorMessage = MsgUnwrapFailed
  /\ rcv[1].downloadCode = WrongCode
  /\ rcv[2].isCodeVerified /\ rcv[2].call = CallSent
  /\ files[1] # NoRow /\ files[1].download_count = 0

\* --------------------------------------------------------------------- C19

\* C19: for every well-formed envelope, the KEK the receiver derives from
\* the sender's code is the one PBKDF2 gives with the iteration count and
\* hash recorded in kdf_params, so the page that has verified the sender's
\* code holds the file key.
C19_ReceiverUsesEnvelopeParams ==
  (lab.stage = "page" /\ ~Tampered(lab.page.metadata)) =>
    LET m == lab.page.metadata
        salt == hexToArrayBuffer(m.salt)
    IN  /\ deriveKek(lab.code, salt) =
             Pbkdf2(TextEncode(lab.code), salt,
                    m.kdf_params.iterations, m.kdf_params.hash)
        /\ (lab.page.downloadCode = lab.code /\ lab.page.status # "idle") =>
             /\ lab.page.isCodeVerified
             /\ lab.page.fileKey = lab.tape.fileKey

\* --------------------------------------------------------------------- C20

\* The reference encoder: the bytes as one bit string, most significant bit
\* first; bit j and group k count from 0.
BitAt(bytes, j) == (bytes[(j \div 8) + 1] \div Pow2(7 - (j % 8))) % 2
RefGroup(bytes, k) ==
  16 * BitAt(bytes, 5 * k) + 8 * BitAt(bytes, 5 * k + 1)
    + 4 * BitAt(bytes, 5 * k + 2) + 2 * BitAt(bytes, 5 * k + 3)
    + BitAt(bytes, 5 * k + 4)
FullGroups(bytes) == (8 * Len(bytes)) \div 5
RefFullSymbols(bytes) ==
  [k \in 1..FullGroups(bytes) |-> BASE32_CHARS[RefGroup(bytes, k - 1) + 1]]

\* C20: for the bytes drawn so far, the symbols encodeBase32 emits for the
\* full 5-bit groups are those of the reference encoder, also once more
\* than four bytes have been shifted through the 32-bit accumulator; the
\* generated code is the reference's first L symbols.
C20_FullGroupsMatchReference ==
  /\ lab.stage \in {"draw", "code", "hex", "view"} =>
       SubSeq(encodeBase32(lab.randomBytes), 1, FullGroups(lab.randomBytes))
         = RefFullSymbols(lab.randomBytes)
  /\ lab.stage \in {"code", "hex", "view"} =>
       lab.code = SubSeq(RefFullSymbols(lab.randomBytes), 1, lab.length)

\* Seven bytes with high bits set have gone through the accumulator, which
\* overflowed from the fifth byte on.
C20_Witness ==
  /\ lab.stage = "code"
  /\ Len(lab.randomBytes) = 7
  /\ lab.randomBytes[1] = 171 /\ lab.randomBytes[2] = 255
  /\ lab.randomBytes[6] = 9
  /\ Len(lab.code) = 10

\* --------------------------------------------------------------------- C21

\* The bits left after the last full group, and their value read as a
\* number: most significant bit first, zero bits in front.
TrailBits(bytes) == (8 * Len(bytes)) % 5
RECURSIVE TrailValue(_, _, _)
TrailValue(bytes, from, n) ==
  IF n = 0 THEN 0
  ELSE BitAt(bytes, from) * Pow2(n - 1) + TrailValue(bytes, from + 1, n - 1)
LeftPaddedTrail(bytes) ==
  TrailValue(bytes, 5 * FullGroups(bytes), TrailBits(bytes))

\* C21: when the bits of the input are no multiple of 5, the last symbol
\* encodeBase32 emits is the one whose index is the leftover bits with zero
\* bits in front (the leftover bits at the low-order end of the index).
C21_TrailingGroupLeftPadded ==
  (lab.stage \in {"draw", "code", "hex", "view"} /\ TrailBits(lab.randomBytes) > 0) =>
    LET out == encodeBase32(lab.randomBytes)
    IN  /\ Len(out) = FullGroups(lab.randomBytes) + 1
        /\ out[Len(out)] = BASE32_CHARS[LeftPaddedTrail(lab.randomBytes) + 1]

\* --------------------------------------------------------------------- C22

NotePresent(m) == "encrypted_instructions" \in DOMAIN m

\* C22: in the envelope encryptFile produced, encrypted_instructions and
\* instructions_iv are both present or both absent, never empty, present
\* only for a non-empty note, and when present decryptInstructions under
\* the file key returns exactly the note the sender supplied, which is what
\* the verified page shows.
C22_NoteOptionalAndExact ==
  lab.stage = "page" =>
    LET m == lab.page.metadata
    IN  /\ NotePresent(m) <=> "instructions_iv" \in DOMAIN m
        /\ NotePresent(m) =>
             /\ m.encrypted_instructions # <<>> /\ m.instructions_iv # <<>>
             /\ lab.note # <<>>
             /\ decryptInstructions(m, lab.tape.fileKey) = lab.note
        /\ (NotePresent(m) /\ lab.page.isCodeVerified) =>
             lab.page.instructions = lab.note

\* --------------------------------------------------------------------- C23

\* The note's ciphertext does not open under the file key the sender drew.
NoteTagMismatch(m) ==
  /\ NotePresent(m)
  /\ ~AesGcmOpen(lab.tape.fileKey, hexToArrayBuffer(m.instructions_iv),
                 hexToArrayBuffer(m.encrypted_instructions)).ok

\* C23: a tag mismatch raises the decryption failure for the content and
\* for the note alike.  A page that has run handleVerifyCode on an envelope
\* whose note fails its tag check is in the error state with no note; a
\* page whose fetched ciphertext fails its tag check is in the error state
\* with decryptFile's message and has saved nothing.
C23_TagMismatchRaises ==
  (lab.stage = "page" /\ ~Tampered(lab.page.metadata)) =>
    /\ (NoteTagMismatch(lab.page.metadata) /\ lab.page.status # "idle") =>
         /\ lab.page.status = "error"
         /\ lab.page.instructions = NullText
    /\ (/\ lab.page.blob # NoBlob
        /\ ~decryptFile(lab.page.blob, lab.page.metadata, lab.page.fileKey).ok) =>
         /\ lab.page.status = "error"
         /\ lab.page.errorMessage = MsgFileDecryptFailed
         /\ lab.page.saved = NoBlob

\* ---------------------------------------------------------------- C24
\* C24: in handleDownload a transport failure is surfaced as an error of its
\* own: a step that puts on the page the message that the link has expired or
\* reached its limit (the fallback text or the endpoint's denial text) is a
\* step taken on a Denied answer (403) of the ledger endpoint.
MsgDenied == {MsgLinkExpired, "File has reached its download limit or expired."}

C24_ToldExpiredStep ==
  \A r \in Receivers :
    (/\ rcv[r].call \notin {NoCall, CallSent}
     /\ rcv'[r].call = NoCall
     /\ rcv'[r].errorMessage \in MsgDenied)
      => rcv[r].call.status = 403

C24_ExpiredOnlyWhenDenied == [][C24_ToldExpiredStep]_vars

\* ---------------------------------------------------------------- C25
\* C25: the receiver holds the unwrapped file key only until the content
\* decryption completes: once a run of handleDownload has finished (the
\* function answered and the page went to success or error), the page state
\* holds no file key.
C25_FinishStep ==
  \A r \in Receivers :
    (rcv[r].call \notin {NoCall, CallSent} /\ rcv'[r].call = NoCall)
      => /\ rcv'[r].status \in {"success", "error"}
         /\ rcv'[r].fileKey = <<>>

C25_KeyDroppedAfterDownload == [][C25_FinishStep]_vars

\* ------------------------------------ encryption.ts, the earlier protocol
\* The envelope protocol of src/lib/encryption.ts (lines 148-372), which has
\* no wrap_iv field.  deriveKek, wrapFileKey and unwrapFileKey are the same
\* functions as in crypto.ts, with the same configuration.

\* hexToArrayBuffer of encryption.ts: hex.match(/.{1,2}/g) cuts the text in
\* pairs, a last single character being a group of its own, and parseInt
\* reads each; the match of an empty text is null and the call throws,
\* which is modelled by the empty result and tested by the caller.
hexToArrayBufferV1(hex) ==
  [j \in 1..((Len(hex) + 1) \div 2) |->
     ParseHexPair(SubSeq(hex, 2 * j - 1, IF 2 * j <= Len(hex) THEN 2 * j ELSE Len(hex)))]

\* encryptFile of encryption.ts.  rnd holds the draws: fileKey, salt, wrapIv
\* (drawn inside wrapFileKey) and iv.
encryptFileV1(file, downloadCode, rnd) ==
  LET fileKey == rnd.fileKey
      salt == rnd.salt
      kek == deriveKek(downloadCode, salt)
      wrapped == wrapFileKey(fileKey, kek, rnd.wrapIv)
      iv == rnd.iv
      ciphertext == AesGcmSeal(fileKey, iv, file.content)
      envelope ==
        [filename |-> file.name,
         mime_type |-> file.type,
         size |-> Len(file.content),
         alg |-> KEY_ALG,
         iv |-> arrayBufferToHex(iv),
         salt |-> arrayBufferToHex(salt),
         kdf_params |-> [name |-> "PBKDF2", iterations |-> KDF_ITERATIONS,
                         hash |-> KDF_HASH],
         wrapped_file_key |-> arrayBufferToHex(wrapped.wrappedKey)]
  IN  [ciphertext |-> ciphertext, envelope |-> envelope]

MsgDecryptionFailedV1 ==
  "Decryption failed. The download code may be incorrect or the data corrupted."

\* decryptFile of encryption.ts: the decrypted Blob, or the error thrown.
decryptFileV1(ciphertext, envelope, downloadCode) ==
  LET failed == [ok |-> FALSE, content |-> <<>>, type |-> "",
                 error |-> MsgDecryptionFailedV1]
  IN  IF envelope.salt = <<>> \/ envelope.wrapped_file_key = <<>> \/ envelope.iv = <<>>
      THEN failed
      ELSE
        LET salt == hexToArrayBufferV1(envelope.salt)
            kek == deriveKek(downloadCode, salt)
            wrappedKey == hexToArrayBufferV1(envelope.wrapped_file_key)
            wrapIv == hexToArrayBufferV1(envelope.iv)
            fileKey == unwrapFileKey(wrappedKey, wrapIv, kek)
            iv == hexToArrayBufferV1(envelope.iv)
        IN  IF ~fileKey.ok THEN failed
            ELSE LET opened == AesGcmOpen(fileKey.data, iv, ciphertext)
                 IN  IF opened.ok
                     THEN [ok |-> TRUE, content |-> opened.data,
                           type |-> envelope.mime_type, error |-> ""]
                     ELSE failed

\* One sender and one recipient of the earlier protocol.
NoResultV1 == [ok |-> FALSE, content |-> <<>>, type |-> "", error |-> ""]

V1Tapes ==
  [fileKey : LabKeys, salt : LabSalts, wrapIv : LabIvs, iv : LabIvs]

V1Init ==
  /\ SystemInit
  /\ lab \in [stage : {"v1input"}, file : LabFiles, code : LabCodes,
              tape : V1Tapes, ciphertext : {NoBlob}, envelope : {NoRow},
              typed : {<<>>}, blob : {NoBlob}, result : {NoResultV1}]

V1Encrypt ==
  /\ lab.stage = "v1input"
  /\ LET enc == encryptFileV1(lab.file, lab.code, lab.tape)
     IN  lab' = [lab EXCEPT !.stage = "v1stored",
                            !.ciphertext = enc.ciphertext,
                            !.envelope = enc.envelope]
  /\ UNCHANGED System

\* The recipient types code; the store hands back blob.
V1Decrypt(code, blob) ==
  /\ lab.stage = "v1stored"
  /\ lab' = [lab EXCEPT !.stage = "v1done", !.typed = code, !.blob = blob,
                        !.result = decryptFileV1(blob, lab.envelope, code)]
  /\ UNCHANGED System

V1Next ==
  \/ V1Encrypt
  \/ \E code \in LabCodes, blob \in {lab.ciphertext, Corrupt(lab.ciphertext)} :
       V1Decrypt(code, blob)

SpecV1 == V1Init /\ [][V1Next]_vars

\* ---------------------------------------------------------------- C26
\* C26: in the earlier protocol the IV decryptFile passes to unwrapFileKey
\* is the IV wrapFileKey used, so decryptFile with the sender's code on the
\* stored ciphertext recovers the file.
C26_V1UnwrapIvIsWrapIv ==
  (lab.stage = "v1done" /\ lab.typed = lab.code /\ lab.blob = lab.ciphertext) =>
    /\ hexToArrayBufferV1(lab.envelope.iv) = lab.tape.wrapIv
    /\ lab.result.ok
    /\ lab.result.content = lab.file.content

\* ------------------------------------------- the edge function on its own
\* SpecEdge runs the handler of increment-download-count on every request
\* body and every answer of the RPC call: the function's boolean result, a
\* null result, or an error.

MaxEdgeCalls == 3

EdgeRows ==
  {[id |-> 1, expires_at |-> e, max_downloads |-> m, download_count |-> 0] :
     e \in 1..MaxTime, m \in LimitChoices}

NoEdgeRun == [fileId |-> 0, called |-> FALSE, rpc |-> [error |-> FALSE],
              response |-> NoCall]

EdgeInit ==
  /\ SystemInit
  /\ lab \in [stage : {"edge"},
              table : {[i \in Ids |-> row] : row \in EdgeRows \cup {NoRow}},
              clock : {0}, runs : {0}, last : {NoEdgeRun}]

\* What supabaseAdmin.rpc hands to the handler, and the table afterwards.
EdgeRpc(table, fileId, clock, outcome) ==
  IF outcome = "error" THEN [rpc |-> [error |-> TRUE], table |-> table]
  ELSE IF outcome = "null" THEN [rpc |-> [error |-> FALSE], table |-> table]
  ELSE LET done == RpcIncrementDownloadCount(table, fileId, clock)
       IN  [rpc |-> [data |-> done.data, error |-> FALSE], table |-> done.table]

\* One run of the handler on the body {fileId}; fileId = 0 is a body
\* without fileId.
EdgeServe(fileId, outcome) ==
  /\ lab.stage = "edge"
  /\ lab.runs < MaxEdgeCalls
  /\ IF fileId = 0
     THEN lab' = [lab EXCEPT !.runs = @ + 1,
                    !.last = [fileId |-> 0, called |-> FALSE,
                              rpc |-> [error |-> FALSE],
                              response |-> ServeResponse(0, [error |-> FALSE])]]
     ELSE LET call == EdgeRpc(lab.table, fileId, lab.clock, outcome)
          IN  lab' = [lab EXCEPT !.runs = @ + 1, !.table = call.table,
                        !.last = [fileId |-> fileId, called |-> TRUE,
                                  rpc |-> call.rpc,
                                  response |-> ServeResponse(fileId, call.rpc)]]
  /\ UNCHANGED System

EdgeTick ==
  /\ lab.stage = "edge"
  /\ lab.clock < MaxTime
  /\ lab' = [lab EXCEPT !.clock = @ + 1]
  /\ UNCHANGED System

EdgeNext ==
  \/ \E fileId \in {0} \cup Ids, outcome \in {"answer", "null", "error"} :
       EdgeServe(fileId, outcome)
  \/ EdgeTick

SpecEdge == EdgeInit /\ [][EdgeNext]_vars

\* ---------------------------------------------------------------- C27
\* C27: the endpoint answers 200 only when the RPC returned true; for false,
\* a missing result, an RPC error or a body without fileId it answers with
\* an error status, and without fileId it does not call the RPC.
RpcAllowed(rpc) == ~rpc.error /\ "data" \in DOMAIN rpc /\ rpc.data = TRUE

C27_SuccessOnlyWhenAllowed ==
  (lab.stage = "edge" /\ lab.runs > 0) =>
    /\ lab.last.response.status \in {200, 400, 403}
    /\ lab.last.response.status = 200 <=>
         (lab.last.fileId # 0 /\ RpcAllowed(lab.last.rpc))
    /\ lab.last.fileId = 0 => ~lab.last.called

\* ---------------------------------------------------------------- C28
\* C28: at the end of every sender flow, in success or in error, the blob
\* store holds a ciphertext under an id exactly if the metadata store holds
\* an envelope with that id; the share URL is there only when both writes
\* succeeded.
C28_StoresAgreeAfterUpload ==
  (sender.status \in {"success", "error"} /\ sender.pending = NoPending) =>
    /\ \A i \in Ids : (storage[i] # NoBlob) <=> (files[i] # NoRow)
    /\ sender.shareUrl # NoUrl =>
         /\ storage[sender.shareUrl.fileId] # NoBlob
         /\ files[sender.shareUrl.fileId] # NoRow

\* ---------------------------------------------------------------- C29
\* C29: the download count measures delivered files: a run of handleDownload
\* that the ledger allowed (which raised download_count by one) and that
\* then fails, at the blob fetch or at the content decryption, ends with the
\* slot given back, download_count being one less than while the run was in
\* flight; a run that delivers the file keeps the count.
C29_FinishStep ==
  \A r \in Receivers :
    (rcv[r].call.status = 200 /\ rcv'[r].call = NoCall) =>
      LET i == rcv[r].fileId
      IN  /\ files[i] # NoRow /\ files'[i] # NoRow
          /\ files'[i].download_count =
               IF rcv'[r].status = "success" /\ rcv'[r].saved # NoBlob
               THEN files[i].download_count
               ELSE files[i].download_count - 1

C29_CountMeasuresDeliveries == [][C29_FinishStep]_vars

\* --------------------------------- encryption.ts, the character mapping
\* A CharacterMapping is the sequence of its entries <<key, value>>, as code
\* units, in the order they were written; a later entry for a key replaces
\* an earlier one.
DEFAULT_MAPPING ==
  <<<<97, 120>>, <<98, 121>>, <<99, 122>>, <<100, 119>>, <<101, 118>>, <<102, 117>>,
    <<103, 116>>, <<104, 115>>, <<105, 114>>, <<106, 113>>, <<107, 112>>, <<108, 111>>,
    <<109, 110>>, <<110, 109>>, <<111, 108>>, <<112, 107>>, <<113, 106>>, <<114, 105>>,
    <<115, 104>>, <<116, 103>>, <<117, 102>>, <<118, 101>>, <<119, 100>>, <<120, 99>>,
    <<121, 98>>, <<122, 97>>, <<65, 88>>, <<66, 89>>, <<67, 90>>, <<68, 87>>,
    <<69, 86>>, <<70, 85>>, <<71, 84>>, <<72, 83>>, <<73, 82>>, <<74, 81>>,
    <<75, 80>>, <<76, 79>>, <<77, 78>>, <<79, 76>>, <<80, 75>>, <<81, 74>>,
    <<82, 73>>, <<83, 72>>, <<84, 71>>, <<85, 70>>, <<86, 69>>, <<87, 68>>,
    <<88, 67>>, <<89, 66>>, <<90, 65>>, <<48, 57>>, <<49, 56>>, <<50, 55>>,
    <<51, 54>>, <<52, 53>>, <<54, 51>>, <<55, 50>>, <<56, 49>>, <<57, 48>>,
    <<32, 126>>, <<33, 64>>, <<34, 35>>, <<36, 37>>, <<37, 94>>, <<38, 42>>,
    <<40, 41>>, <<45, 95>>, <<61, 43>>, <<91, 125>>, <<93, 123>>, <<123, 93>>,
    <<125, 91>>, <<92, 124>>, <<59, 58>>, <<58, 59>>, <<39, 96>>, <<44, 62>>,
    <<46, 60>>, <<63, 47>>, <<47, 63>>>>

\* mapping[char]: the value, or -1 for undefined.
MappingGet(mapping, char) ==
  LET at == {i \in 1..Len(mapping) : mapping[i][1] = char}
  IN  IF at = {} THEN -1
      ELSE mapping[CHOOSE i \in at : \A j \in at : j <= i][2]

createInverseMapping(mapping) ==
  [i \in 1..Len(mapping) |-> <<mapping[i][2], mapping[i][1]>>]

\* mapping[char] || char, for every code unit of the text.
applyMapping(text, mapping) ==
  [i \in 1..Len(text) |->
     IF MappingGet(mapping, text[i]) = -1 THEN text[i]
     ELSE MappingGet(mapping, text[i])]

reverseString(text) == [i \in 1..Len(text) |-> text[Len(text) + 1 - i]]

BASE64_CHARS ==
  <<65, 66, 67, 68, 69, 70, 71, 72, 73, 74, 75, 76, 77, 78, 79, 80, 81, 82, 83,
    84, 85, 86, 87, 88, 89, 90, 97, 98, 99, 100, 101, 102, 103, 104, 105, 106,
    107, 108, 109, 110, 111, 112, 113, 114, 115, 116, 117, 118, 119, 120, 121,
    122, 48, 49, 50, 51, 52, 53, 54, 55, 56, 57, 43, 47>>

RECURSIVE Base64Encode(_)
Base64Encode(bytes) ==
  IF Len(bytes) = 0 THEN <<>>
  ELSE IF Len(bytes) = 1
  THEN <<BASE64_CHARS[bytes[1] \div 4 + 1],
         BASE64_CHARS[(bytes[1] % 4) * 16 + 1], 61, 61>>
  ELSE IF Len(bytes) = 2
  THEN <<BASE64_CHARS[bytes[1] \div 4 + 1],
         BASE64_CHARS[(bytes[1] % 4) * 16 + bytes[2] \div 16 + 1],
         BASE64_CHARS[(bytes[2] % 16) * 4 + 1], 61>>
  ELSE <<BASE64_CHARS[bytes[1] \div 4 + 1],
         BASE64_CHARS[(bytes[1] % 4) * 16 + bytes[2] \div 16 + 1],
         BASE64_CHARS[(bytes[2] % 16) * 4 + bytes[3] \div 64 + 1],
         BASE64_CHARS[(bytes[3] % 64) + 1]>>
         \o Base64Encode(SubSeq(bytes, 4, Len(bytes)))

\* btoa: the text, or the InvalidCharacterError for a code unit above 255.
btoa(str) ==
  IF \E i \in 1..Len(str) : str[i] > 255
  THEN [ok |-> FALSE, text |-> <<>>]
  ELSE [ok |-> TRUE, text |-> Base64Encode(str)]

Base64Val(char) == (CHOOSE i \in 1..64 : BASE64_CHARS[i] = char) - 1

RECURSIVE Base64Decode(_)
Base64Decode(vals) ==
  IF Len(vals) < 2 THEN <<>>
  ELSE IF Len(vals) = 2
  THEN <<vals[1] * 4 + vals[2] \div 16>>
  ELSE IF Len(vals) = 3
  THEN <<vals[1] * 4 + vals[2] \div 16, (vals[2] % 16) * 16 + vals[3] \div 4>>
  ELSE <<vals[1] * 4 + vals[2] \div 16, (vals[2] % 16) * 16 + vals[3] \div 4,
         (vals[3] % 4) * 64 + vals[4]>>
         \o Base64Decode(SubSeq(vals, 5, Len(vals)))

IsAsciiWhitespace(char) == char \in {9, 10, 12, 13, 32}
NotAsciiWhitespace(char) == ~IsAsciiWhitespace(char)

\* atob (forgiving-base64 decode): ASCII whitespace is removed, one or two
\* "=" are removed from the end of a text whose length is a multiple of
\* four; a remaining length of 1 modulo 4 or a character outside the
\* alphabet is an InvalidCharacterError.
atob(str) ==
  LET data == SelectSeq(str, NotAsciiWhitespace)
      n == Len(data)
      cut == IF n % 4 = 0 /\ n > 0 /\ data[n] = 61
             THEN IF data[n - 1] = 61 THEN SubSeq(data, 1, n - 2)
                  ELSE SubSeq(data, 1, n - 1)
             ELSE data
  IN  IF \/ Len(cut) % 4 = 1
         \/ \E i \in 1..Len(cut) : \A k \in 1..64 : BASE64_CHARS[k] # cut[i]
      THEN [ok |-> FALSE, text |-> <<>>]
      ELSE [ok |-> TRUE,
            text |-> Base64Decode([i \in 1..Len(cut) |-> Base64Val(cut[i])])]

\* encryptText with customMapping = DEFAULT_MAPPING: the text, or the
\* "Encryption failed" error.
encryptText(text, useBase64) ==
  LET encrypted == reverseString(applyMapping(text, DEFAULT_MAPPING))
  IN  IF useBase64 THEN btoa(encrypted)
      ELSE [ok |-> TRUE, text |-> encrypted]

\* decryptText with customMapping = DEFAULT_MAPPING: the text, or the
\* "Decryption failed" error.
decryptText(encryptedText, useBase64) ==
  LET decoded == IF useBase64 THEN atob(encryptedText)
                 ELSE [ok |-> TRUE, text |-> encryptedText]
  IN  IF ~decoded.ok THEN decoded
      ELSE [ok |-> TRUE,
            text |-> applyMapping(reverseString(decoded.text),
                                  createInverseMapping(DEFAULT_MAPPING))]

\* A text is typed one character at a time, encrypted and decrypted again.
MaxTextLen == 3

\* "a", "M", "N", "5", " ", "~", e with acute accent, the euro sign.
CharPool == {97, 77, 78, 53, 32, 126, 233, 8364}

NoText == [ok |-> FALSE, text |-> <<-1>>]

TextInit ==
  /\ SystemInit
  /\ lab \in [stage : {"typing"}, text : {<<>>}, useBase64 : BOOLEAN,
              encrypted : {NoText}, decrypted : {NoText}]

TextType(char) ==
  /\ lab.stage = "typing"
  /\ Len(lab.text) < MaxTextLen
  /\ lab' = [lab EXCEPT !.text = Append(@, char)]
  /\ UNCHANGED System

TextEncrypt ==
  /\ lab.stage = "typing"
  /\ lab' = [lab EXCEPT !.stage = "encrypted",
                        !.encrypted = encryptText(lab.text, lab.useBase64)]
  /\ UNCHANGED System

TextDecrypt ==
  /\ lab.stage = "encrypted"
  /\ lab.encrypted.ok
  /\ lab' = [lab EXCEPT !.stage = "decrypted",
                        !.decrypted = decryptText(lab.encrypted.text, lab.useBase64)]
  /\ UNCHANGED System

TextNext ==
  \/ \E char \in CharPool : TextType(char)
  \/ TextEncrypt
  \/ TextDecrypt

SpecText == TextInit /\ [][TextNext]_vars

\* ---------------------------------------------------------------- C30
\* C30: under DEFAULT_MAPPING, decryptText(encryptText(t, o), o) = t for
\* every text t that encryptText accepts and for both values of useBase64.
C30_TextRoundTrip ==
  lab.stage = "decrypted" =>
    /\ lab.decrypted.ok
    /\ lab.decrypted.text = lab.text

====
